---- MODULE Spec2Model ----
(***************************************************************************)
(* A model of the transform buffer of rust_tf2: the per-edge time series   *)
(* TfIndividualTransformChain (src/src/chain.rs) and the store TfBuffer    *)
(* (src/src/buffer.rs) with its path search and lookups.                   *)
(*                                                                         *)
(* Reals (f64) are fixed-point integers with unit One.  A rosrust::Time is *)
(* its count of nanoseconds.  A msg::TransformStamped is a record          *)
(* [frame_id, child_frame_id, stamp, transform].                           *)
(***************************************************************************)
EXTENDS Integers, Sequences, FiniteSets, TLC

\* ------------------------------------------------------------------ bounds
\* Largest ordinary timestamp an ingested sample or a query carries.
MaxTime == 3
\* Inserts into the stand-alone series of SpecChain.
MaxInserts == 3
\* Transforms ingested into the store of Spec, over all batches.
MaxIngest == 2
\* Longest batch one handle_incoming_transforms call receives.
MaxBatch == 2
\* Undirected relationships of the stores SpecPath starts from.
MaxEdges == 5

\* ------------------------------------------------------- program constants
\* TfIndividualTransformChain::new sets buffer_size: 100.
buffer_size == 100

\* ------------------------------------------------------------- arithmetic
RECURSIVE Factorial(_)
Factorial(n) == IF n <= 1 THEN 1 ELSE n * Factorial(n - 1)

\* 1.0 in fixed point: every quotient of two durations up to MaxTime + 1 is
\* exact.
One == Factorial(MaxTime + 1)

Mul(a, b) == (a * b) \div One
Div(a, b) == (a * One) \div b

Quaternion(x, y, z, w) == [x |-> x, y |-> y, z |-> z, w |-> w]
Vector3(x, y, z) == [x |-> x, y |-> y, z |-> z]
Transform(rotation, translation) ==
    [rotation |-> rotation, translation |-> translation]

IdentityRotation == Quaternion(0, 0, 0, One)
IdentityTransform == Transform(IdentityRotation, Vector3(0, 0, 0))

\* Hamilton product of two quaternions.
QMul(p, q) ==
    Quaternion(Mul(p.w, q.x) + Mul(p.x, q.w) + Mul(p.y, q.z) - Mul(p.z, q.y),
               Mul(p.w, q.y) - Mul(p.x, q.z) + Mul(p.y, q.w) + Mul(p.z, q.x),
               Mul(p.w, q.z) + Mul(p.x, q.y) - Mul(p.y, q.x) + Mul(p.z, q.w),
               Mul(p.w, q.w) - Mul(p.x, q.x) - Mul(p.y, q.y) - Mul(p.z, q.z))

Conjugate(q) == Quaternion(0 - q.x, 0 - q.y, 0 - q.z, q.w)

\* The vector v turned by the rotation q: the vector part of q v q*.
Rotate(q, v) ==
    LET r == QMul(QMul(q, Quaternion(v.x, v.y, v.z, 0)), Conjugate(q))
    IN  Vector3(r.x, r.y, r.z)

VAdd(u, v) == Vector3(u.x + v.x, u.y + v.y, u.z + v.z)
VNeg(v) == Vector3(0 - v.x, 0 - v.y, 0 - v.z)

\* transforms::invert_transform: the inverse rigid transform.
invert_transform(t) ==
    Transform(Conjugate(t.rotation),
              VNeg(Rotate(Conjugate(t.rotation), t.translation)))

\* One step of transforms::chain_transforms: a followed by b.
Compose(a, b) ==
    Transform(QMul(a.rotation, b.rotation),
              VAdd(a.translation, Rotate(a.rotation, b.translation)))

\* transforms::chain_transforms: left-to-right chaining, identity when empty.
RECURSIVE chain_transforms(_)
chain_transforms(tflist) ==
    IF tflist = <<>> THEN IdentityTransform
    ELSE Compose(chain_transforms(SubSeq(tflist, 1, Len(tflist) - 1)),
                 tflist[Len(tflist)])

Blend(a, b, weight) == Mul(a, weight) + Mul(b, One - weight)

\* transforms::interpolate: weight is the share given to t1.
interpolate(t1, t2, weight) ==
    Transform(
        Quaternion(Blend(t1.rotation.x, t2.rotation.x, weight),
                   Blend(t1.rotation.y, t2.rotation.y, weight),
                   Blend(t1.rotation.z, t2.rotation.z, weight),
                   Blend(t1.rotation.w, t2.rotation.w, weight)),
        Vector3(Blend(t1.translation.x, t2.translation.x, weight),
                Blend(t1.translation.y, t2.translation.y, weight),
                Blend(t1.translation.z, t2.translation.z, weight)))

\* utils::to_transform_stamped.
to_transform_stamped(tf, from_frame, to_frame, time) ==
    [frame_id |-> from_frame, child_frame_id |-> to_frame,
     stamp |-> time, transform |-> tf]

\* utils::get_inverse: the same observation seen from the child.
get_inverse(m) ==
    [frame_id |-> m.child_frame_id, child_frame_id |-> m.frame_id,
     stamp |-> m.stamp, transform |-> invert_transform(m.transform)]

\* utils::get_nanos of a duration: its signed count of nanoseconds.
get_nanos(d) == d

\* ------------------------------------------------------------ input sets
\* A translation with a z component under the identity rotation, and a half
\* turn about z with a translation along y.
TfA == Transform(IdentityRotation, Vector3(One, 0, 2 * One))
TfB == Transform(Quaternion(0, 0, One, 0), Vector3(0, One, 0))
Payloads == {TfA, TfB}

Times == 0 .. MaxTime
\* A timestamp later than everything else the model stores.
LateStamp == buffer_size + MaxTime
Stamps == Times \cup {LateStamp}
QueryTimes == Stamps \cup {LateStamp + 1}

Msg(frame_id, child_frame_id, stamp, transform) ==
    [frame_id |-> frame_id, child_frame_id |-> child_frame_id,
     stamp |-> stamp, transform |-> transform]

\* The samples the stand-alone series receives: two shapes, any stamp.
ChainMsgs ==
    {Msg("a", "b", t, TfA) : t \in Stamps} \cup
    {Msg("b", "a", t, TfB) : t \in Stamps}

\* --------------------------------------------- TfIndividualTransformChain
\* TfIndividualTransformChain::new (buffer_size is the constant above).
TfIndividualTransformChain(static_tf) ==
    [static_tf |-> static_tf, transform_chain |-> <<>>]

\* Ord of msg::TransformStamped: by header.stamp alone.
StampOf(m) == m.stamp

\* slice::binary_search on a sequence sorted by stamp: Ok(x) for an x whose
\* element compares equal (which one is left to the library when several
\* do), else Err(x) with x the insertion point.  x counts from 0.
binary_search(s, m) ==
    LET hits == {i \in 1 .. Len(s) : StampOf(s[i]) = StampOf(m)}
        less == {i \in 1 .. Len(s) : StampOf(s[i]) < StampOf(m)}
    IN  IF hits # {}
        THEN {[ok |-> TRUE, x |-> i - 1] : i \in hits}
        ELSE {[ok |-> FALSE, x |-> Cardinality(less)]}

\* Vec::insert(x, m): m lands at index x, the rest shift right.
VecInsert(s, x, m) == SubSeq(s, 1, x) \o <<m>> \o SubSeq(s, x + 1, Len(s))

\* Place with the search skipped: the sample is pushed at the end.
PlaceAtEnd(s, m) == {Append(s, m)}

\* Place overwriting the sample the search finds with an equal stamp.
PlaceReplacing(s, m) ==
    {IF r.ok THEN [s EXCEPT ![r.x + 1] = m] ELSE VecInsert(s, r.x, m) :
        r \in binary_search(s, m)}

\* add_to_buffer, lines 26-31: the sequences the insertion can produce.
Place(s, m) == {VecInsert(s, r.x, m) : r \in binary_search(s, m)}

\* Evict dropping the last position instead of position 0.
EvictLast(s) ==
    IF Len(s) > buffer_size THEN SubSeq(s, 1, Len(s) - 1) ELSE s

\* add_to_buffer, lines 33-35: drop position 0 when over capacity.
Evict(s) == IF Len(s) > buffer_size THEN Tail(s) ELSE s

\* add_to_buffer: the chains the call can leave behind.
add_to_buffer(c, m) ==
    {[c EXCEPT !.transform_chain = Evict(p)] : p \in Place(c.transform_chain, m)}

Ok(v) == [tag |-> "Ok", value |-> v]
Err(e) == [tag |-> e]
\* An unwrap of None or an index out of range: the thread panics.
Panic == Err("panic")

\* get_closest_transform, lines 39-41: the static branch.
ClosestStatic(s) ==
    IF Len(s) = 0 THEN Panic ELSE Ok(s[Len(s)])

\* Interpolated with the weight handed to the wrong neighbour.
InterpolatedSwapped(s, x, time) ==
    LET tf1 == s[x]
        tf2 == s[x + 1]
        total_duration == get_nanos(tf2.stamp - tf1.stamp)
        desired_duration == get_nanos(time - tf1.stamp)
        weight == Div(desired_duration, total_duration)
        final_tf == interpolate(tf1.transform, tf2.transform, weight)
    IN  to_transform_stamped(final_tf, tf2.frame_id, tf2.child_frame_id, time)

\* get_closest_transform, lines 70-81: the blend of the two neighbours of
\* the insertion point x.
Interpolated(s, x, time) ==
    LET tf1 == s[x]
        tf2 == s[x + 1]
        time1 == s[x].stamp
        time2 == s[x + 1].stamp
        total_duration == get_nanos(time2 - time1)
        desired_duration == get_nanos(time - time1)
        weight == One - Div(desired_duration, total_duration)
        final_tf == interpolate(tf1.transform, tf2.transform, weight)
    IN  to_transform_stamped(final_tf, tf2.frame_id, tf2.child_frame_id, time)

\* ClosestDynamic testing the upper end before the lower end.
ClosestDynamicFutureFirst(s, r, time) ==
    IF r.ok THEN Ok(s[r.x + 1])
    ELSE IF r.x >= Len(s) THEN Err("AttemptedLookUpInFuture")
    ELSE IF r.x = 0 THEN Err("AttemptedLookupInPast")
    ELSE Ok(Interpolated(s, r.x, time))

\* ClosestDynamic answering an exact match with the element after it.
ClosestDynamicNextElement(s, r, time) ==
    IF r.ok THEN Ok(s[IF r.x + 2 <= Len(s) THEN r.x + 2 ELSE r.x + 1])
    ELSE IF r.x = 0 THEN Err("AttemptedLookupInPast")
    ELSE IF r.x >= Len(s) THEN Err("AttemptedLookUpInFuture")
    ELSE Ok(Interpolated(s, r.x, time))

\* get_closest_transform, lines 61-83: the outcome for one search result.
ClosestDynamic(s, r, time) ==
    IF r.ok THEN Ok(s[r.x + 1])
    ELSE IF r.x = 0 THEN Err("AttemptedLookupInPast")
    ELSE IF r.x >= Len(s) THEN Err("AttemptedLookUpInFuture")
    ELSE Ok(Interpolated(s, r.x, time))

\* get_closest_transform: the outcomes the call can have.
get_closest_transform(c, time) ==
    IF c.static_tf
    THEN {ClosestStatic(c.transform_chain)}
    ELSE {ClosestDynamic(c.transform_chain, r, time) :
             r \in binary_search(c.transform_chain,
                                 Msg("", "", time, IdentityTransform))}

\* --------------------------------------------------------------- TfBuffer
\* graph::TfGraphNode, the key of transform_data.
TfGraphNode(child, parent) == [child |-> child, parent |-> parent]

\* TfBuffer::new: both maps empty.
TfBuffer == [child_transform_index |-> <<>>, transform_data |-> <<>>]

\* add_transform, lines 48-56, with the set replaced on every call.
IndexAfterReplacing(index, transform) ==
    IF transform.frame_id \in DOMAIN index
    THEN [index EXCEPT ![transform.frame_id] = {transform.child_frame_id}]
    ELSE index @@ (transform.frame_id :> {transform.child_frame_id})

\* add_transform, lines 48-56: child joins the neighbour set of parent,
\* which is created when missing.
IndexAfter(index, transform) ==
    IF transform.frame_id \in DOMAIN index
    THEN [index EXCEPT ![transform.frame_id] = @ \cup {transform.child_frame_id}]
    ELSE index @@ (transform.frame_id :> ({} \cup {transform.child_frame_id}))

\* add_transform, lines 58-68, with a new series made on every call.
DataAfterReplacing(data, transform, static_tf) ==
    LET key == TfGraphNode(transform.child_frame_id, transform.frame_id)
    IN  {[k \in DOMAIN data \cup {key} |-> IF k = key THEN c ELSE data[k]] :
            c \in add_to_buffer(TfIndividualTransformChain(static_tf),
                                transform)}

\* add_transform, lines 58-68: the sample joins the series of its key, which
\* is created with the call's static_tf when missing.
DataAfter(data, transform, static_tf) ==
    LET key == TfGraphNode(transform.child_frame_id, transform.frame_id)
    IN  IF key \in DOMAIN data
        THEN {[data EXCEPT ![key] = c] : c \in add_to_buffer(data[key], transform)}
        ELSE {data @@ (key :> c) :
                 c \in add_to_buffer(TfIndividualTransformChain(static_tf),
                                     transform)}

\* add_transform: the stores the call can leave behind.
add_transform(buffer, transform, static_tf) ==
    {[child_transform_index |->
          IndexAfter(buffer.child_transform_index, transform),
      transform_data |-> d] :
        d \in DataAfter(buffer.transform_data, transform, static_tf)}

\* handle_incoming_transforms recording the observation alone.
RECURSIVE HandleWithoutInverse(_, _, _)
HandleWithoutInverse(buffer, transforms, static_tf) ==
    IF transforms = <<>> THEN {buffer}
    ELSE UNION {HandleWithoutInverse(b1, Tail(transforms), static_tf) :
                   b1 \in add_transform(buffer, Head(transforms), static_tf)}

\* handle_incoming_transforms: each transform of the batch and its inverse
\* are recorded, in batch order.
RECURSIVE handle_incoming_transforms(_, _, _)
handle_incoming_transforms(buffer, transforms, static_tf) ==
    IF transforms = <<>> THEN {buffer}
    ELSE LET transform == Head(transforms)
             inverse_transform == get_inverse(transform)
         IN  UNION {UNION {handle_incoming_transforms(b2, Tail(transforms),
                                                      static_tf) :
                              b2 \in add_transform(b1, inverse_transform,
                                                   static_tf)} :
                       b1 \in add_transform(buffer, transform, static_tf)}

\* The orders in which a HashSet can hand out its elements.
RECURSIVE Orders(_)
Orders(S) ==
    IF S = {} THEN {<<>>}
    ELSE UNION {{<<v>> \o o : o \in Orders(S \ {v})} : v \in S}

\* The loop over the children leaving at the first child it has visited
\* (`break` for the `continue` of line 90).
RECURSIVE VisitChildrenBreak(_, _, _)
VisitChildrenBreak(children, current_node, l) ==
    IF children = <<>> THEN l
    ELSE LET v == Head(children)
         IN  IF v \in l.visited
             THEN l
             ELSE VisitChildrenBreak(Tail(children), current_node,
                      [parents |-> [x \in DOMAIN l.parents \cup {v} |->
                                       IF x = v THEN current_node
                                       ELSE l.parents[x]],
                       frontier |-> <<v>> \o l.frontier,
                       visited |-> l.visited \cup {v}])

\* The loop over the children without the visited test of lines 89-91.
RECURSIVE VisitChildrenUnguarded(_, _, _)
VisitChildrenUnguarded(children, current_node, l) ==
    IF children = <<>> THEN l
    ELSE LET v == Head(children)
         IN  VisitChildrenUnguarded(Tail(children), current_node,
                 [parents |-> [x \in DOMAIN l.parents \cup {v} |->
                                  IF x = v THEN current_node
                                  ELSE l.parents[x]],
                  frontier |-> <<v>> \o l.frontier,
                  visited |-> l.visited \cup {v}])

\* retrieve_transform_path, lines 88-95: the loop over the children of
\* current_node, taken in the order `children`; l holds the locals
\* frontier, visited and parents.
RECURSIVE VisitChildren(_, _, _)
VisitChildren(children, current_node, l) ==
    IF children = <<>> THEN l
    ELSE LET v == Head(children)
         IN  IF v \in l.visited
             THEN VisitChildren(Tail(children), current_node, l)
             ELSE VisitChildren(Tail(children), current_node,
                      [parents |-> [x \in DOMAIN l.parents \cup {v} |->
                                       IF x = v THEN current_node
                                       ELSE l.parents[x]],
                       frontier |-> <<v>> \o l.frontier,
                       visited |-> l.visited \cup {v}])

Reverse(s) == [i \in 1 .. Len(s) |-> s[Len(s) + 1 - i]]

\* lookup_transform, lines 127-147: the transforms of the edges along path,
\* starting at first; stops at the first edge that fails.
RECURSIVE CollectTransforms(_, _, _, _)
CollectTransforms(data, first, path, time) ==
    IF path = <<>> THEN {[tag |-> "Ok", tflist |-> <<>>]}
    ELSE LET intermediate == Head(path)
             node == TfGraphNode(intermediate, first)
         IN  IF node \notin DOMAIN data
             THEN {[tag |-> "panic", tflist |-> <<>>]}
             ELSE UNION {
                 IF c.tag # "Ok"
                 THEN {[tag |-> c.tag, tflist |-> <<>>]}
                 ELSE {IF rest.tag = "Ok"
                       THEN [tag |-> "Ok",
                             tflist |-> <<c.value.transform>> \o rest.tflist]
                       ELSE rest :
                          rest \in CollectTransforms(data, intermediate,
                                                     Tail(path), time)} :
                 c \in get_closest_transform(data[node], time)}

\* lookup_transform, lines 148-165: the message built from the chained
\* transform.
LookupMsg(final_tf, source_frame, target_frame, time) ==
    [frame_id |-> source_frame,
     child_frame_id |-> target_frame,
     stamp |-> time,
     transform |->
         Transform(Quaternion(final_tf.rotation.x, final_tf.rotation.y,
                              final_tf.rotation.z, final_tf.rotation.w),
                   Vector3(final_tf.translation.x, final_tf.translation.y,
                           final_tf.rotation.z))]

\* lookup_transform after retrieve_transform_path has returned found
\* (whether it succeeded) and path: the outcomes the call can have.
lookup_transform(buffer, source_frame, target_frame, time, found, path) ==
    IF ~found THEN {Err("CouldNotFindTransform")}
    ELSE {IF l.tag = "Ok"
          THEN Ok(LookupMsg(chain_transforms(l.tflist), source_frame,
                            target_frame, time))
          ELSE Err(l.tag) :
             l \in CollectTransforms(buffer.transform_data, source_frame,
                                     path, time)}

\* retrieve_transform_path, lines 80-100, run to its end: the parent
\* pointers the search loop can leave behind; l holds the locals.
RECURSIVE SearchLoop(_, _, _)
SearchLoop(index, to_frame, l) ==
    IF l.frontier = <<>> \/ Head(l.frontier) = to_frame THEN {l.parents}
    ELSE LET current_node == Head(l.frontier)
             popped == [l EXCEPT !.frontier = Tail(l.frontier)]
         IN  IF current_node \in DOMAIN index
             THEN UNION {SearchLoop(index, to_frame,
                                    VisitChildren(children, current_node,
                                                  popped)) :
                            children \in Orders(index[current_node])}
             ELSE SearchLoop(index, to_frame, popped)

\* retrieve_transform_path, lines 101-114, run to its end: the walk from
\* r back to from_frame.
RECURSIVE WalkBack(_, _, _, _)
WalkBack(parent_map, from_frame, r_frame, walked) ==
    IF r_frame = from_frame THEN Ok(Reverse(walked))
    ELSE IF r_frame \in DOMAIN parent_map
         THEN WalkBack(parent_map, from_frame, parent_map[r_frame],
                       Append(walked, r_frame))
         ELSE Err("CouldNotFindTransform")

\* retrieve_transform_path as one call: the results it can have.
retrieve_transform_path(index, from_frame, to_frame) ==
    {WalkBack(p, from_frame, to_frame, <<>>) :
        p \in SearchLoop(index, to_frame,
                         [frontier |-> <<from_frame>>,
                          visited |-> {from_frame}, parents |-> <<>>])}

\* lookup_transform as one call: the outcomes it can have.
LookupOutcomes(buffer, source_frame, target_frame, time) ==
    UNION {lookup_transform(buffer, source_frame, target_frame, time,
                            p.tag = "Ok",
                            IF p.tag = "Ok" THEN p.value ELSE <<>>) :
              p \in retrieve_transform_path(buffer.child_transform_index,
                                            source_frame, target_frame)}

\* lookup_transform_with_time_travel chaining its two transforms in the
\* other order.
TravelResultSwapped(source_tf, target_tf, source_frame, target_frame, source_time) ==
    IF source_tf.tag # "Ok" THEN source_tf
    ELSE IF target_tf.tag # "Ok" THEN target_tf
    ELSE Ok(to_transform_stamped(
                chain_transforms(
                    <<invert_transform(source_tf.value.transform),
                      target_tf.value.transform>>),
                source_frame, target_frame, source_time))

\* lookup_transform_with_time_travel, lines 177-184: what the call makes of
\* the outcomes of its two lookups; `?` hands the first failure on.
TravelResult(source_tf, target_tf, source_frame, target_frame, source_time) ==
    IF source_tf.tag # "Ok" THEN source_tf
    ELSE IF target_tf.tag # "Ok" THEN target_tf
    ELSE LET transforms == invert_transform(source_tf.value.transform)
             result == chain_transforms(<<target_tf.value.transform,
                                          transforms>>)
         IN  Ok(to_transform_stamped(result, source_frame, target_frame,
                                     source_time))

\* lookup_transform_with_time_travel: the lookups the call can have made
\* and its outcome.  The store does not change between the two lookups, so
\* the same lookup asked twice answers the same.
lookup_transform_with_time_travel(buffer, target_frame, target_time, source_frame, source_time, fixed_frame) ==
    {[source_tf |-> s,
      target_tf |-> IF s.tag = "Ok" THEN t ELSE Err("none"),
      res |-> TravelResult(s, t, source_frame, target_frame, source_time)] :
        <<s, t>> \in
            {st \in LookupOutcomes(buffer, source_frame, fixed_frame,
                                   source_time)
                    \X LookupOutcomes(buffer, target_frame, fixed_frame,
                                      target_time) :
                (source_frame = target_frame /\ source_time = target_time)
                => st[1] = st[2]}}

\* ------------------------------------------------------------------ state
VARIABLES
    chain,      \* SpecChain: one stand-alone TfIndividualTransformChain
    placed,     \* its sequence as the last insert left it before eviction
    inserted,   \* the sample the last insert received, <<>> before any
    n_inserts,  \* inserts made so far
    closest,    \* the last get_closest_transform: its time and its outcome
    child_transform_index,  \* TfBuffer: frame -> set of its children
    transform_data,         \* TfBuffer: TfGraphNode -> its series
    n_ingested, \* transforms ingested so far
    static_arg, \* the static_tf of the last ingestion, <<>> before any
    pc,         \* where the running lookup stands: idle, search, walk,
                \* found, failed
    from,       \* retrieve_transform_path: its arguments and locals
    to,
    frontier,
    visited,
    parents,
    r,
    res,
    out,        \* the last finished call: its arguments, path and outcome
    travel,     \* the last lookup_transform_with_time_travel: its
                \* arguments, its two lookups and its outcome
    op          \* the operation that produced this state

chain_vars == <<chain, placed, inserted, n_inserts, closest>>
store_vars == <<child_transform_index, transform_data, n_ingested, static_arg>>
path_vars == <<pc, from, to, frontier, visited, parents, r, res>>
lookup_vars == <<out, travel>>
vars == <<chain_vars, store_vars, path_vars, lookup_vars, op>>

buffer ==
    [child_transform_index |-> child_transform_index,
     transform_data |-> transform_data]

NoClosest == [time |-> 0, res |-> Err("none")]
NoOut ==
    [source_frame |-> "", target_frame |-> "", time |-> 0, path |-> <<>>,
     res |-> Err("none")]

NoTravel ==
    [target_frame |-> "", target_time |-> 0, source_frame |-> "",
     source_time |-> 0, fixed_frame |-> "", source_tf |-> Err("none"),
     target_tf |-> Err("none"), res |-> Err("none")]

\* The series after n in-order inserts with stamps 1 .. n.
Prefill(n) == [i \in 1 .. n |-> Msg("a", "b", i, TfA)]

ChainIdle ==
    /\ chain = TfIndividualTransformChain(FALSE)
    /\ placed = <<>>
    /\ inserted = <<>>
    /\ n_inserts = 0
    /\ closest = NoClosest

PathIdle ==
    /\ pc = "idle"
    /\ from = ""
    /\ to = ""
    /\ frontier = <<>>
    /\ visited = {}
    /\ parents = <<>>
    /\ r = ""
    /\ res = <<>>

StoreEmpty ==
    /\ child_transform_index = TfBuffer.child_transform_index
    /\ transform_data = TfBuffer.transform_data
    /\ n_ingested = 0
    /\ static_arg = <<>>

LookupIdle == out = NoOut /\ travel = NoTravel

\* ------------------------------------------- SpecChain, SpecChainFull
\* A series as new(st) and n in-order inserts leave it.
InitChainOf(st, n) ==
    /\ chain = [TfIndividualTransformChain(st) EXCEPT
                    !.transform_chain = Prefill(n)]
    /\ placed = Prefill(n)
    /\ inserted = IF n = 0 THEN <<>> ELSE <<Prefill(n)[n]>>
    /\ n_inserts = 0
    /\ closest = NoClosest
    /\ StoreEmpty
    /\ PathIdle
    /\ LookupIdle
    /\ op = "init"

\* A fresh series.
InitChain == \E st \in BOOLEAN : InitChainOf(st, 0)

\* A fresh series, or one a single insert short of its capacity.
InitChainFull ==
    \E st \in BOOLEAN, n \in {0, buffer_size - 1} : InitChainOf(st, n)

ChainInsert ==
    /\ n_inserts < MaxInserts
    /\ \E m \in ChainMsgs :
          \E p \in Place(chain.transform_chain, m) :
             /\ placed' = p
             /\ chain' = [chain EXCEPT !.transform_chain = Evict(p)]
             /\ chain' \in add_to_buffer(chain, m)
             /\ inserted' = <<m>>
    /\ n_inserts' = n_inserts + 1
    /\ closest' = NoClosest
    /\ op' = "add_to_buffer"
    /\ UNCHANGED <<store_vars, path_vars, lookup_vars>>

\* get_closest_transform(time).  The call leaves the series as it is: a
\* call that follows another is the call made first, and the model makes
\* it from the states an insert left.
ChainClosest ==
    /\ closest = NoClosest
    /\ \E t \in QueryTimes :
          \E c \in get_closest_transform(chain, t) :
             closest' = [time |-> t, res |-> c]
    /\ op' = "get_closest_transform"
    /\ UNCHANGED <<chain, placed, inserted, n_inserts>>
    /\ UNCHANGED <<store_vars, path_vars, lookup_vars>>

NextChain == ChainInsert \/ ChainClosest

SpecChain == InitChain /\ [][NextChain]_vars

SpecChainFull == InitChainFull /\ [][NextChain]_vars

\* ------------------------------------------------- retrieve_transform_path
\* retrieve_transform_path, lines 73-78: the locals as the call sets them up.
BeginSearch(f, t) ==
    /\ pc = "idle"
    /\ from' = f
    /\ to' = t
    /\ res' = <<>>
    /\ frontier' = <<f>>
    /\ visited' = {f}
    /\ parents' = <<>>
    /\ r' = ""
    /\ pc' = "search"

\* retrieve_transform_path, lines 80-100: one turn of the search loop, or
\* its end, which hands over to the walk back from `to` (line 101).
SearchStep ==
    /\ pc = "search"
    /\ IF frontier = <<>> \/ Head(frontier) = to
       THEN /\ pc' = "walk"
            /\ r' = to
            /\ frontier' = IF frontier = <<>> THEN frontier ELSE Tail(frontier)
            /\ UNCHANGED <<visited, parents>>
       ELSE LET current_node == Head(frontier)
                l == [frontier |-> Tail(frontier), visited |-> visited,
                      parents |-> parents]
            IN  /\ IF current_node \in DOMAIN child_transform_index
                   THEN \E children \in
                               Orders(child_transform_index[current_node]) :
                           LET n == VisitChildren(children, current_node, l)
                           IN  /\ frontier' = n.frontier
                               /\ visited' = n.visited
                               /\ parents' = n.parents
                   ELSE /\ frontier' = l.frontier
                        /\ UNCHANGED <<visited, parents>>
                /\ UNCHANGED <<pc, r>>
    /\ op' = "retrieve_transform_path"
    /\ UNCHANGED <<from, to, res>>
    /\ UNCHANGED <<chain_vars, store_vars, lookup_vars>>

\* The walk back returning the frames in the order it met them (without
\* the reverse of line 113).
WalkStepUnreversed ==
    /\ pc = "walk"
    /\ IF r = from
       THEN /\ res' = res
            /\ pc' = "found"
            /\ UNCHANGED r
       ELSE /\ res' = Append(res, r)
            /\ IF r \in DOMAIN parents
               THEN r' = parents[r] /\ pc' = pc
               ELSE r' = r /\ pc' = "failed"
    /\ op' = "retrieve_transform_path"
    /\ UNCHANGED <<from, to, frontier, visited, parents>>
    /\ UNCHANGED <<chain_vars, store_vars, lookup_vars>>

\* The walk back testing r against `from` only after its first turn (a
\* loop that tests at its end).
WalkStepTestAtEnd ==
    /\ pc = "walk"
    /\ IF r = from /\ res # <<>>
       THEN /\ res' = Reverse(res)
            /\ pc' = "found"
            /\ UNCHANGED r
       ELSE /\ res' = Append(res, r)
            /\ IF r \in DOMAIN parents
               THEN r' = parents[r] /\ pc' = pc
               ELSE r' = r /\ pc' = "failed"
    /\ op' = "retrieve_transform_path"
    /\ UNCHANGED <<from, to, frontier, visited, parents>>
    /\ UNCHANGED <<chain_vars, store_vars, lookup_vars>>

\* retrieve_transform_path, lines 102-114: one turn of the walk along the
\* parent pointers, or its end.
WalkStep ==
    /\ pc = "walk"
    /\ IF r = from
       THEN /\ res' = Reverse(res)
            /\ pc' = "found"
            /\ UNCHANGED r
       ELSE /\ res' = Append(res, r)
            /\ IF r \in DOMAIN parents
               THEN r' = parents[r] /\ pc' = pc
               ELSE r' = r /\ pc' = "failed"
    /\ op' = "retrieve_transform_path"
    /\ UNCHANGED <<from, to, frontier, visited, parents>>
    /\ UNCHANGED <<chain_vars, store_vars, lookup_vars>>

\* The locals of a finished call are gone.
EndSearch ==
    /\ pc' = "idle"
    /\ from' = ""
    /\ to' = ""
    /\ frontier' = <<>>
    /\ visited' = {}
    /\ parents' = <<>>
    /\ r' = ""
    /\ res' = <<>>

\* ------------------------------------------------------------------- Spec
Frames == {"a", "b", "c"}

\* The observations the store receives: each relationship in one
\* orientation (its inverse is recorded with it).
Relationships == {<<"a", "b">>, <<"b", "c">>, <<"c", "a">>}
StoreStamps == {t \in Times : t % 2 = 1}
StoreMsgs ==
    {Msg(e[1], e[2], t, tf) : e \in Relationships, t \in StoreStamps,
                              tf \in Payloads}

RECURSIVE SeqsUpTo(_, _)
SeqsUpTo(S, n) ==
    IF n = 0 THEN {<<>>}
    ELSE LET shorter == SeqsUpTo(S, n - 1)
         IN  shorter \cup {Append(q, x) : q \in shorter, x \in S}

Min(a, b) == IF a < b THEN a ELSE b

Init ==
    /\ ChainIdle
    /\ StoreEmpty
    /\ PathIdle
    /\ LookupIdle
    /\ op = "init"

\* handle_incoming_transforms(transforms, static_tf).  An ingestion does
\* not read what a finished lookup returned: the model ingests from the
\* states in which out holds none, which reaches the same stores.
Ingest ==
    /\ pc = "idle"
    /\ out = NoOut
    /\ n_ingested < MaxIngest
    /\ \E transforms \in
             SeqsUpTo(StoreMsgs, Min(MaxBatch, MaxIngest - n_ingested)) \ {<<>>},
          static_tf \in BOOLEAN :
          /\ \E b \in handle_incoming_transforms(buffer, transforms, static_tf) :
                /\ child_transform_index' = b.child_transform_index
                /\ transform_data' = b.transform_data
          /\ n_ingested' = n_ingested + Len(transforms)
          /\ static_arg' = <<static_tf>>
    /\ out' = NoOut
    /\ op' = "handle_incoming_transforms"
    /\ UNCHANGED <<chain_vars, path_vars, travel>>

\* lookup_transform(source_frame, target_frame, time), up to its call of
\* retrieve_transform_path (line 124).  The search does not read time: the
\* model draws it where the call first reads it, in LookupReturn.
LookupCall ==
    /\ \E source_frame \in Frames, target_frame \in Frames :
          BeginSearch(source_frame, target_frame)
    /\ out' = NoOut
    /\ op' = "lookup_transform"
    /\ UNCHANGED <<chain_vars, store_vars, travel>>

\* lookup_transform from the return of retrieve_transform_path to its own.
LookupReturn ==
    /\ pc \in {"found", "failed"}
    /\ \E t \in Times \cup {MaxTime + 1} :
          \E o \in lookup_transform(buffer, from, to, t, pc = "found", res) :
             out' = [source_frame |-> from, target_frame |-> to, time |-> t,
                     path |-> IF pc = "found" THEN res ELSE <<>>, res |-> o]
    /\ EndSearch
    /\ op' = "lookup_transform"
    /\ UNCHANGED <<chain_vars, store_vars, travel>>

Next == Ingest \/ LookupCall \/ SearchStep \/ WalkStep \/ LookupReturn

Spec == Init /\ [][Next]_vars

\* --------------------------------------------------------------- SpecPath
PathFrames == <<"a", "b", "c", "d", "e">>
PathFrameSet == {PathFrames[i] : i \in 1 .. Len(PathFrames)}

\* Every relationship between two frames, a frame with itself included.
PathPairs ==
    {<<PathFrames[ij[1]], PathFrames[ij[2]]>> :
        ij \in {x \in (1 .. Len(PathFrames)) \X (1 .. Len(PathFrames)) :
                   x[1] <= x[2]}}

RECURSIVE SetToSeq(_)
SetToSeq(S) ==
    IF S = {} THEN <<>>
    ELSE LET x == CHOOSE y \in S : TRUE
         IN  <<x>> \o SetToSeq(S \ {x})

\* The stores one static batch that observes each relationship of E once
\* can leave behind.
Observed(E) ==
    LET pairs == SetToSeq(E)
    IN  handle_incoming_transforms(
            TfBuffer,
            [i \in 1 .. Len(pairs) |-> Msg(pairs[i][1], pairs[i][2], 1, TfA)],
            TRUE)

InitPath ==
    /\ ChainIdle
    /\ \E E \in SUBSET PathPairs :
          /\ Cardinality(E) <= MaxEdges
          /\ \E b \in Observed(E) :
                /\ child_transform_index = b.child_transform_index
                /\ transform_data = b.transform_data
          /\ n_ingested = Cardinality(E)
          /\ static_arg = <<TRUE>>
    /\ PathIdle
    /\ LookupIdle
    /\ op = "init"

\* retrieve_transform_path(from, to).  The stores of InitPath are closed
\* under renaming the frames, so every search is the renaming of one that
\* starts at the first frame.
PathCall ==
    /\ \E t \in PathFrameSet : BeginSearch(PathFrames[1], t)
    /\ out' = NoOut
    /\ op' = "retrieve_transform_path"
    /\ UNCHANGED <<chain_vars, store_vars, travel>>

PathReturn ==
    /\ pc \in {"found", "failed"}
    /\ out' = [source_frame |-> from, target_frame |-> to, time |-> 0,
               path |-> IF pc = "found" THEN res ELSE <<>>,
               res |-> IF pc = "found" THEN Err("Ok")
                       ELSE Err("CouldNotFindTransform")]
    /\ EndSearch
    /\ op' = "retrieve_transform_path"
    /\ UNCHANGED <<chain_vars, store_vars, travel>>

NextPath == PathCall \/ SearchStep \/ WalkStep \/ PathReturn

SpecPath == InitPath /\ [][NextPath]_vars

\* ------------------------------------------------------------- SpecTravel
\* The observations of a moving frame b in a, turned half round, and of a
\* frame c mounted on b.  Each relationship keeps its rotation, so that
\* what interpolate returns has a unit rotation.
TravelMsgs ==
    {Msg("a", "b", t, Transform(Quaternion(0, 0, One, 0),
                                Vector3(t * One, One, 0))) :
        t \in StoreStamps}
    \cup {Msg("b", "c", t, TfA) : t \in StoreStamps}

\* handle_incoming_transforms(transforms, static_tf) with a batch of one.
TravelIngest ==
    /\ n_ingested < MaxIngest
    /\ \E m \in TravelMsgs, static_tf \in BOOLEAN :
          /\ \E b \in handle_incoming_transforms(buffer, <<m>>, static_tf) :
                /\ child_transform_index' = b.child_transform_index
                /\ transform_data' = b.transform_data
          /\ n_ingested' = n_ingested + 1
          /\ static_arg' = <<static_tf>>
    /\ travel' = NoTravel
    /\ op' = "handle_incoming_transforms"
    /\ UNCHANGED <<chain_vars, path_vars, out>>

\* lookup_transform_with_time_travel(target_frame, target_time,
\* source_frame, source_time, fixed_frame).  The call reads the store and
\* leaves it as it is: a call that follows another is the call made first,
\* and the model makes it from the states an ingestion left.
TimeTravel ==
    /\ travel = NoTravel
    /\ \E target_frame \in Frames, source_frame \in Frames,
          fixed_frame \in Frames,
          target_time \in Times \cup {MaxTime + 1},
          source_time \in Times \cup {MaxTime + 1} :
          \E o \in lookup_transform_with_time_travel(
                       buffer, target_frame, target_time, source_frame,
                       source_time, fixed_frame) :
             travel' = [target_frame |-> target_frame,
                        target_time |-> target_time,
                        source_frame |-> source_frame,
                        source_time |-> source_time,
                        fixed_frame |-> fixed_frame,
                        source_tf |-> o.source_tf,
                        target_tf |-> o.target_tf,
                        res |-> o.res]
    /\ op' = "lookup_transform_with_time_travel"
    /\ UNCHANGED <<chain_vars, store_vars, path_vars, out>>

NextTravel == TravelIngest \/ TimeTravel

SpecTravel == Init /\ [][NextTravel]_vars

\* ----------------------------------------------------------- SpecDiverged
\* A store whose index names an edge the edge map has no series for: a
\* store ingestion left behind, with one series taken away.  No sequence of
\* calls leaves a TfBuffer there (add_transform writes both maps, C5); it
\* is the value of the two fields that lines 128-131 of lookup_transform
\* meet when `get` finds nothing.
DivergedPairs == {e \in PathPairs : e[1] \in Frames /\ e[2] \in Frames}

InitDiverged ==
    /\ ChainIdle
    /\ \E E \in SUBSET DivergedPairs :
          /\ Cardinality(E) <= MaxIngest + 1
          /\ \E b \in Observed(E) :
                \E gone \in DOMAIN b.transform_data :
                   /\ child_transform_index = b.child_transform_index
                   /\ transform_data =
                         [key \in DOMAIN b.transform_data \ {gone} |->
                             b.transform_data[key]]
          /\ n_ingested = Cardinality(E)
          /\ static_arg = <<TRUE>>
    /\ PathIdle
    /\ LookupIdle
    /\ op = "init"

NextDiverged == LookupCall \/ SearchStep \/ WalkStep \/ LookupReturn

SpecDiverged == InitDiverged /\ [][NextDiverged]_vars

\* ------------------------------------------------- claims on the series
Sorted(s) == \A i \in 1 .. Len(s) - 1 : s[i].stamp <= s[i + 1].stamp

Queried == closest.res.tag # "none"

\* C2: a static series that has received an insert answers every query with
\* the sample inserted most recently.
C2_StaticReturnsMostRecentInsert ==
    (chain.static_tf /\ Queried /\ Len(chain.transform_chain) > 0)
        => closest.res = Ok(inserted[1])

\* C3: the series never holds more than buffer_size samples, and an insert
\* into a full series leaves exactly buffer_size samples, the one dropped
\* being position 0 of the sequence as the insertion left it.
C3_CapacityAndEviction ==
    /\ Len(chain.transform_chain) <= buffer_size
    /\ Len(placed) > buffer_size =>
          /\ Len(chain.transform_chain) = buffer_size
          /\ chain.transform_chain = Tail(placed)

C3_Witness ==
    /\ op = "add_to_buffer"
    /\ Len(placed) = buffer_size + 1
    /\ inserted[1].stamp > placed[1].stamp

\* C4: the samples of the series are in non-decreasing timestamp order in
\* every reachable state.
C4_Sorted == Sorted(chain.transform_chain)

C4_Witness ==
    /\ op = "add_to_buffer"
    /\ Len(placed) = buffer_size + 1
    /\ \E i \in 1 .. Len(chain.transform_chain) - 1 :
          /\ chain.transform_chain[i] = inserted[1]
          /\ chain.transform_chain[i + 1].stamp >= inserted[1].stamp

\* C7: a dynamic series fails with AttemptedLookupInPast when the queried
\* time is earlier than every stored timestamp (the empty series included)
\* and with AttemptedLookUpInFuture when it is later than every stored
\* timestamp of a non-empty series.
C7_OutOfRangeErrors ==
    (~chain.static_tf /\ Queried) =>
        LET s == chain.transform_chain
        IN  /\ (\A i \in 1 .. Len(s) : closest.time < s[i].stamp)
               => closest.res = Err("AttemptedLookupInPast")
            /\ (Len(s) > 0 /\ \A i \in 1 .. Len(s) : closest.time > s[i].stamp)
               => closest.res = Err("AttemptedLookUpInFuture")

C7_Witness ==
    /\ ~chain.static_tf
    /\ Len(chain.transform_chain) = 0
    /\ closest.res = Err("AttemptedLookupInPast")

\* C8: a dynamic series queried at the timestamp of a stored sample returns
\* a stored sample with that timestamp, unchanged.
C8_ExactMatch ==
    LET s == chain.transform_chain
    IN  (/\ ~chain.static_tf
         /\ Queried
         /\ \E i \in 1 .. Len(s) : s[i].stamp = closest.time)
        => /\ closest.res.tag = "Ok"
           /\ \E i \in 1 .. Len(s) :
                 s[i].stamp = closest.time /\ closest.res.value = s[i]

C8_Witness ==
    LET s == chain.transform_chain
    IN  /\ ~chain.static_tf
        /\ closest.res.tag = "Ok"
        /\ \E i, j \in 1 .. Len(s) :
              /\ i < j
              /\ s[i].stamp = closest.time
              /\ s[j].stamp > closest.time
              /\ s[j].transform # s[i].transform

\* The share alpha of the way from time1 to time2 that time has covered.
Alpha(time1, time2, time) == Div(time - time1, time2 - time1)
Weighted(a, b, alpha) == Mul(a, One - alpha) + Mul(b, alpha)

\* C9: a dynamic series queried strictly between two adjacent stored
\* timestamps returns a sample stamped at the queried time, with the frame
\* names of the later neighbour, whose transform gives weight 1 - alpha to
\* the earlier neighbour and alpha to the later one.
C9_Interpolation ==
    LET s == chain.transform_chain
        v == closest.res.value
    IN  (~chain.static_tf /\ Queried) =>
        \A i \in 1 .. Len(s) - 1 :
            (s[i].stamp < closest.time /\ closest.time < s[i + 1].stamp) =>
            LET tf1 == s[i].transform
                tf2 == s[i + 1].transform
                alpha == Alpha(s[i].stamp, s[i + 1].stamp, closest.time)
            IN  /\ closest.res.tag = "Ok"
                /\ v.stamp = closest.time
                /\ v.frame_id = s[i + 1].frame_id
                /\ v.child_frame_id = s[i + 1].child_frame_id
                /\ \A k \in {"x", "y", "z"} :
                      v.transform.translation[k] =
                          Weighted(tf1.translation[k], tf2.translation[k], alpha)
                /\ \A k \in {"x", "y", "z", "w"} :
                      v.transform.rotation[k] =
                          Weighted(tf1.rotation[k], tf2.rotation[k], alpha)

C9_Witness ==
    LET s == chain.transform_chain
    IN  /\ ~chain.static_tf
        /\ closest.res.tag = "Ok"
        /\ \E i \in 1 .. Len(s) - 1 :
              /\ s[i].stamp < closest.time
              /\ closest.time < s[i + 1].stamp
              /\ s[i].transform # s[i + 1].transform
              /\ s[i].frame_id # s[i + 1].frame_id
              /\ 2 * (closest.time - s[i].stamp) # s[i + 1].stamp - s[i].stamp

\* -------------------------------------------------- claims on the store
Series(parent, child) == transform_data[TfGraphNode(child, parent)]

\* The transforms closest(t) can return on the edge (prev, next).
EdgeTransforms(prev, next, t) ==
    {c.value.transform :
        c \in {d \in get_closest_transform(Series(prev, next), t) :
                  d.tag = "Ok"}}

\* The compositions, in path order from source, of one closest(t) transform
\* per consecutive edge of the path.
Composed(source_frame, path, t) ==
    LET hops == <<source_frame>> \o path
        edge(i) == EdgeTransforms(hops[i], hops[i + 1], t)
        all == UNION {edge(i) : i \in 1 .. Len(path)}
    IN  {chain_transforms(f) :
            f \in {g \in [1 .. Len(path) -> all] :
                      \A i \in 1 .. Len(path) : g[i] \in edge(i)}}

\* C1: a lookup that succeeds returns frame_id = source_frame,
\* child_frame_id = target_frame, stamp = time and, as its transform
\* (rotation and translation x, y, z), the composition in path order of the
\* closest(time) transforms of the edges of the resolved path.
C1_LookupComposesPath ==
    (op = "lookup_transform" /\ out.res.tag = "Ok") =>
        /\ out.res.value.frame_id = out.source_frame
        /\ out.res.value.child_frame_id = out.target_frame
        /\ out.res.value.stamp = out.time
        /\ out.res.value.transform \in
               Composed(out.source_frame, out.path, out.time)

\* C5: child is in the neighbour set of parent exactly when the edge map
\* holds a series for (parent, child), and every series is non-empty.
C5_IndexMatchesEdges ==
    /\ \A parent \in Frames, child \in Frames :
          (/\ parent \in DOMAIN child_transform_index
           /\ child \in child_transform_index[parent])
          <=> TfGraphNode(child, parent) \in DOMAIN transform_data
    /\ \A key \in DOMAIN transform_data :
          /\ key.parent \in Frames /\ key.child \in Frames
          /\ Len(transform_data[key].transform_chain) > 0

C5_Witness ==
    /\ op = "handle_incoming_transforms"
    /\ Cardinality(DOMAIN transform_data) = 4
    /\ \E parent \in DOMAIN child_transform_index :
          Cardinality(child_transform_index[parent]) = 2

StampCount(s, t) == Cardinality({i \in 1 .. Len(s) : s[i].stamp = t})

\* C6: whenever the edge map holds (parent, child) it holds (child, parent)
\* too, and every timestamp stored on one is stored on the other, as often.
C6_InverseStored ==
    \A key \in DOMAIN transform_data :
        LET inverse == TfGraphNode(key.parent, key.child)
            s == transform_data[key].transform_chain
        IN  /\ inverse \in DOMAIN transform_data
            /\ \A i \in 1 .. Len(s) :
                  StampCount(transform_data[inverse].transform_chain,
                             s[i].stamp) = StampCount(s, s[i].stamp)

C6_Witness ==
    /\ op = "handle_incoming_transforms"
    /\ \E key \in DOMAIN transform_data :
          LET s == transform_data[key].transform_chain
          IN  Len(s) = 2 /\ s[1].stamp < s[2].stamp

\* The frames one recorded edge away from a frame of S.
Children(S) ==
    UNION {child_transform_index[f] : f \in S \cap DOMAIN child_transform_index}

\* The hops of a shortest chain of recorded edges from the frames of
\* `layer` (k hops from the start) to t; -1 when there is none.
RECURSIVE HopsFrom(_, _, _, _)
HopsFrom(layer, seen, t, k) ==
    IF t \in layer THEN k
    ELSE LET next == Children(layer) \ seen
         IN  IF next = {} THEN 0 - 1
             ELSE HopsFrom(next, seen \cup next, t, k + 1)

MinHops(f, t) == HopsFrom({f}, {f}, t, 0)

\* C10: the path retrieve_transform_path returns has the least number of
\* hops among the chains of recorded edges from `from` to `to`.
C10_PathHasMinimumHops ==
    pc = "found" => Len(res) = MinHops(from, to)

\* --------------------------------------------- claims on the path search
\* C11: for distinct frames, retrieve_transform_path, and with it
\* lookup_transform, fails with CouldNotFindTransform exactly when no
\* chain of recorded edges leads from the first frame to the second: it
\* fails when there is none, a frame the store never saw included, and it
\* does not fail that way when there is one.
C11_UnreachableFailsReachableDoesNot ==
    /\ (pc \in {"found", "failed"} /\ from # to)
       => (pc = "failed" <=> MinHops(from, to) < 0)
    /\ (out.res.tag # "none" /\ out.source_frame # out.target_frame)
       => (out.res.tag = "CouldNotFindTransform"
           <=> MinHops(out.source_frame, out.target_frame) < 0)

C11_Witness ==
    /\ out.res.tag = "CouldNotFindTransform"
    /\ out.source_frame \in DOMAIN child_transform_index
    /\ out.target_frame \notin DOMAIN child_transform_index
    /\ \E other \in DOMAIN child_transform_index :
          /\ MinHops(out.source_frame, other) < 0
          /\ MinHops(other, out.source_frame) < 0

NoRepeats(s) == \A i \in 1 .. Len(s), j \in 1 .. Len(s) : s[i] = s[j] => i = j

\* What the search loop has left to do: the frames it has not met count
\* twice, the frames waiting on the frontier once.
SearchMeasure == 2 * Cardinality(PathFrameSet \ visited) + Len(frontier)

\* C12: retrieve_transform_path terminates on every store and every pair
\* of frames, cycles and self-edges included.  No frame is on the frontier
\* twice and each was marked visited when it entered, every turn of the
\* search loop lowers SearchMeasure, which never goes below zero; every
\* turn of the walk back adds one frame to res, which never holds more
\* frames than the search has visited.
C12_SearchTerminates ==
    /\ [](pc = "search" => /\ NoRepeats(frontier)
                           /\ \A i \in 1 .. Len(frontier) :
                                 frontier[i] \in visited
                           /\ visited \subseteq PathFrameSet)
    /\ [][(pc = "search" /\ pc' = "search")
             => SearchMeasure' < SearchMeasure]_vars
    /\ [](pc = "walk" => NoRepeats(res) /\ Len(res) <= Cardinality(visited))
    /\ [][(pc = "walk" /\ pc' = "walk") => Len(res') = Len(res) + 1]_vars

C12_Witness ==
    /\ pc = "found"
    /\ from \in DOMAIN child_transform_index
    /\ from \in child_transform_index[from]
    /\ \E x \in child_transform_index[from] \ {from} :
          \E y \in child_transform_index[from] \ {from, x} :
             y \in child_transform_index[x]
    /\ Len(res) >= 2

\* ------------------------------------------------ claims on time travel
\* C13: when both of its lookups succeed, lookup_transform_with_time_travel
\* returns frame_id = source_frame, child_frame_id = target_frame, stamp =
\* source_time and the transform of the target lookup followed by the
\* inverse of the transform of the source lookup; this is the identity
\* when target and source agree in frame and in time.
C13_TimeTravelResult ==
    (travel.source_tf.tag = "Ok" /\ travel.target_tf.tag = "Ok")
    => /\ travel.res =
             Ok(Msg(travel.source_frame, travel.target_frame,
                    travel.source_time,
                    Compose(travel.target_tf.value.transform,
                            invert_transform(
                                travel.source_tf.value.transform))))
       /\ (/\ travel.target_frame = travel.source_frame
           /\ travel.target_time = travel.source_time)
          => travel.res.value.transform = IdentityTransform

C13_Witness ==
    /\ travel.res.tag = "Ok"
    /\ Cardinality({travel.source_frame, travel.target_frame,
                    travel.fixed_frame}) = 3
    /\ travel.source_time # travel.target_time
    /\ travel.source_tf.value.stamp \notin StoreStamps
    /\ travel.res.value.transform # IdentityTransform
    /\ travel.res.value.transform # travel.target_tf.value.transform

\* ------------------------------------------------------ claims on lookup
\* C14: for a frame F with a recorded relationship and any time T,
\* lookup_transform(F, F, T) succeeds on the empty path, reading no series:
\* it returns the identity with frame_id = child_frame_id = F and stamp T.
C14_SelfLookupIsIdentity ==
    (/\ out.res.tag # "none"
     /\ out.source_frame = out.target_frame
     /\ out.source_frame \in DOMAIN child_transform_index)
    => /\ out.path = <<>>
       /\ out.res = Ok(Msg(out.source_frame, out.source_frame, out.time,
                           IdentityTransform))

C14_Witness ==
    /\ out.res.tag = "Ok"
    /\ out.source_frame = out.target_frame
    /\ out.source_frame \in DOMAIN child_transform_index
    /\ out.time = MaxTime + 1
    /\ \E key \in DOMAIN transform_data :
          /\ key.parent = out.source_frame
          /\ ~transform_data[key].static_tf

\* The first edge along path, starting at source_frame, that the edge map
\* has no series for, when every edge before it answers time; 0 when
\* lookup_transform does not come to such an edge.
RECURSIVE FirstMissing(_, _, _, _)
FirstMissing(first, path, time, i) ==
    IF path = <<>> THEN 0
    ELSE LET node == TfGraphNode(Head(path), first)
         IN  IF node \notin DOMAIN transform_data THEN i
             ELSE IF \E c \in get_closest_transform(transform_data[node],
                                                    time) : c.tag # "Ok"
                  THEN 0
                  ELSE FirstMissing(Head(path), Tail(path), time, i + 1)

C16_EmptyStaticIsGuarded ==
    (Queried /\ chain.static_tf /\ Len(chain.transform_chain) = 0)
    => closest.res.tag \notin {"Ok", "panic"}

\* C17: the path retrieve_transform_path returns leaves out `from`, ends
\* with `to` (it is empty when from = to), names no frame twice, and each
\* of its steps, the one from `from` included, is a recorded edge.
C17_PathIsWellFormed ==
    pc = "found"
    => LET hops == <<from>> \o res
       IN  /\ \A i \in 1 .. Len(res) : res[i] # from
           /\ IF from = to THEN res = <<>> ELSE res[Len(res)] = to
           /\ NoRepeats(res)
           /\ \A i \in 1 .. Len(res) :
                 /\ hops[i] \in DOMAIN child_transform_index
                 /\ hops[i + 1] \in child_transform_index[hops[i]]

C17_Witness ==
    /\ pc = "found"
    /\ Len(res) >= 3
    /\ \E i \in 1 .. Len(res) : res[i] \in child_transform_index[res[i]]

\* The search taken turn by turn returns what the search taken as one call
\* can return.
StepsAgreeWithCall ==
    /\ pc = "found"
       => Ok(res) \in retrieve_transform_path(child_transform_index, from, to)
    /\ pc = "failed"
       => Err("CouldNotFindTransform")
             \in retrieve_transform_path(child_transform_index, from, to)

\* ------------------------------------------------ claims on the edge map
Occurrences(s, m) == Cardinality({i \in 1 .. Len(s) : s[i] = m})

\* C18: a series takes its static flag from the ingestion that creates it.
\* Every later step leaves the key in the edge map with the flag it has and
\* with every sample it holds, whatever the static_tf of the ingestion.
C18_FlagFixedAtCreation ==
    [][\A key \in DOMAIN transform_data' :
          IF key \in DOMAIN transform_data
          THEN LET old == transform_data[key]
                   new == transform_data'[key]
               IN  /\ new.static_tf = old.static_tf
                   /\ Len(new.transform_chain) >= Len(old.transform_chain)
                   /\ \A i \in 1 .. Len(old.transform_chain) :
                         Occurrences(new.transform_chain,
                                     old.transform_chain[i])
                         >= Occurrences(old.transform_chain,
                                        old.transform_chain[i])
          ELSE static_arg' = <<transform_data'[key].static_tf>>]_vars

C18_Witness ==
    /\ op = "handle_incoming_transforms"
    /\ n_ingested = 2
    /\ static_arg = <<TRUE>>
    /\ \A key \in DOMAIN transform_data :
          /\ ~transform_data[key].static_tf
          /\ Len(transform_data[key].transform_chain) = 2

\* -------------------------------------------- claims on insert and evict
\* C19: an insert into a series that holds buffer_size samples drops the
\* sample at the front of the sequence the insertion produced, and no
\* sample of that sequence has a smaller stamp; when the new sample is
\* older than every stored one, the stored sequence is left as it was.
C19_EvictedIsOldest ==
    [][(/\ n_inserts' = n_inserts + 1
        /\ Len(chain.transform_chain) = buffer_size)
       => LET old == chain.transform_chain
              new == chain'.transform_chain
              m == inserted'[1]
          IN  /\ \E x \in 0 .. Len(old) : placed' = VecInsert(old, x, m)
              /\ new = Tail(placed')
              /\ \A i \in 1 .. Len(placed') :
                    placed'[1].stamp <= placed'[i].stamp
              /\ (\A i \in 1 .. Len(old) : m.stamp < old[i].stamp)
                 => new = old]_vars

C19_Witness ==
    /\ op = "add_to_buffer"
    /\ Len(placed) = buffer_size + 1
    /\ placed[1] = inserted[1]
    /\ inserted[1].stamp < placed[2].stamp
    /\ chain.transform_chain = Tail(placed)

\* C20: an insert into a series that holds fewer than buffer_size samples
\* makes it one sample longer and keeps every earlier sample in its place
\* relative to the others, also when the new stamp is already stored.
C20_InsertKeepsEverySample ==
    [][(/\ n_inserts' = n_inserts + 1
        /\ Len(chain.transform_chain) < buffer_size)
       => LET old == chain.transform_chain
              new == chain'.transform_chain
          IN  /\ Len(new) = Len(old) + 1
              /\ \E x \in 0 .. Len(old) :
                    new = VecInsert(old, x, inserted'[1])]_vars

C20_Witness ==
    /\ op = "add_to_buffer"
    /\ Len(chain.transform_chain) < buffer_size
    /\ \E i \in 1 .. Len(chain.transform_chain) - 1 :
          LET s == chain.transform_chain
          IN  /\ s[i].stamp = s[i + 1].stamp
              /\ s[i] # s[i + 1]
              /\ inserted[1] \in {s[i], s[i + 1]}

====
